---- MODULE Spec2Model ----
(***************************************************************************)
(* st8sniffr-backend: the realtime core of src/server.js (socket.io        *)
(* connection handler, presence broadcasts, message:send) together with    *)
(* the REST routes that touch the same tables: routes/messages.js          *)
(* (POST /:userId, DELETE /:messageId), routes/users.js (POST /online)     *)
(* and routes/auth.js (POST /login, POST /logout).                         *)
(*                                                                         *)
(* The database is the two tables the handlers read and write: users       *)
(* (account_type, is_online) and messages.  Every `await query(...)` is a  *)
(* suspension point: a handler is cut into one action per stretch of code  *)
(* between two awaits.                                                     *)
(***************************************************************************)
EXTENDS Integers, Sequences, FiniteSets, TLC

(***************************************************************************)
(* Bounds of the model.                                                    *)
(***************************************************************************)
MaxConns == 3            \* socket connections ever opened
MaxInFlight == 2         \* send handlers (socket or REST) suspended at once
TicksPerDay == 2         \* clock resolution: INTERVAL '1 day' is this many ticks
MaxMsgsSend == 1         \* inserts allowed in the payload specification
MaxDeletes == 1          \* DELETE requests served

(***************************************************************************)
(* Program constants.                                                      *)
(***************************************************************************)
MessageLimit == 5        \* parseInt(count) >= 5
MaxContentLen == 2000    \* isLength({ max: 2000 })

\* The clock runs until the rows inserted at time 0 have left the window; the
\* rate-limit specifications allow one insert more than the limit and the
\* handlers in flight can produce together.
MaxTime == TicksPerDay
MaxMsgsRate == MessageLimit + MaxInFlight

Users == {1, 2, 3}
Conns == 1..MaxConns
TaskIds == 1..MaxInFlight
AccountTypes == {"anonymous", "registered"}

\* users.account_type of the three rows of the users table: user 1 and user 3
\* were created by POST /auth/anonymous, user 2 by POST /auth/register.
InitialAccountType == [u \in Users |-> IF u = 2 THEN "registered" ELSE "anonymous"]

\* A receiverId that is a well-formed id of no users row, and the JS value
\* undefined (bound to SQL NULL by the driver).
Ghost == 9
NoUser == 0

VARIABLES
  accountType,    \* users.account_type
  isOnline,       \* users.is_online
  sockets,        \* the socket.io connections: state, identity snapshot, rooms
  pendingStatus,  \* is_online UPDATEs issued by socket handlers, not yet applied
  messages,       \* the messages table
  nextId,         \* the id the next inserted row gets
  now,            \* NOW()
  tasks,          \* suspended message handlers (socket message:send, REST POST)
  deletes,        \* DELETE requests served so far
  emitted,        \* socket events emitted by the last step, in order
  response,       \* HTTP response written by the last step
  sentLog         \* history: <<sender, created_at>> of every row ever inserted

vars == <<accountType, isOnline, sockets, pendingStatus, messages, nextId, now,
          tasks, deletes, emitted, response, sentLog>>

(***************************************************************************)
(* JS strings, as far as the handlers look at them: a string is `core`     *)
(* non-blank characters with `pad` blank characters around them; undefined *)
(* is a value of its own.                                                  *)
(***************************************************************************)
Undefined == [present |-> FALSE, pad |-> 0, core |-> 0]
Str(pad, core) == [present |-> TRUE, pad |-> pad, core |-> core]
StrLen(s) == s.pad + s.core
\* String.prototype.trim via express-validator's .trim() sanitizer
Trim(s) == IF s.present THEN Str(0, s.core) ELSE s
\* !s : undefined and "" are falsy
Falsy(s) == ~s.present \/ StrLen(s) = 0
\* s || null
OrNull(s) == IF Falsy(s) THEN Undefined ELSE s

(***************************************************************************)
(* Rooms.  [socket.userId, userId].sort().join('-')                        *)
(***************************************************************************)
\* faulty variant: the two ids are joined without being sorted
RoomIdUnsorted(a, b) == <<a, b>>
RoomId(a, b) == IF a <= b THEN <<a, b>> ELSE <<b, a>>
\* faulty variant: the room name lacks the 'chat:' prefix
ChatRoomUnprefixed(a, b) == [kind |-> "user", id |-> RoomId(a, b)]
ChatRoom(a, b) == [kind |-> "chat", id |-> RoomId(a, b)]
UserRoom(u) == [kind |-> "user", id |-> <<u, u>>]

NoSocket == [state |-> "free", userId |-> NoUser, accountType |-> "anonymous", rooms |-> {}]

LiveConns == {c \in Conns : sockets[c].state = "active"}
LiveOf(u) == {c \in LiveConns : sockets[c].userId = u}
InRoom(r) == {c \in LiveConns : r \in sockets[c].rooms}

\* An emitted socket event: its name, the connections it is sent to, the
\* message id or user id it carries, and the error text of a message:error.
Ev(type, to, ref, info) == [type |-> type, to |-> to, ref |-> ref, info |-> info]
\* An HTTP exchange: the status and error text of the response, the user of
\* the request and, for POST /messages/:userId, the (sanitized) req.body.
NoResponse == [status |-> 0, user |-> NoUser, error |-> "", content |-> Undefined,
               imageUrl |-> Undefined]
Resp(status, u, error) == [NoResponse EXCEPT !.status = status, !.user = u, !.error = error]
MessageResp(status, u, error, content, imageUrl) ==
  [status |-> status, user |-> u, error |-> error, content |-> content,
   imageUrl |-> imageUrl]
\* the response of the REST handler suspended as `task`
TaskResp(status, task, error) ==
  MessageResp(status, task.user, error, task.content, task.imageUrl)

NoTask == [pc |-> "free", kind |-> "none", conn |-> 0, user |-> NoUser,
           tier |-> "anonymous", receiver |-> NoUser, content |-> Undefined,
           imageUrl |-> Undefined, id |-> 0]

Init ==
  /\ accountType = InitialAccountType
  /\ isOnline = [u \in Users |-> FALSE]
  /\ sockets = [c \in Conns |-> NoSocket]
  /\ pendingStatus = {}
  /\ messages = {}
  /\ nextId = 1
  /\ now = 0
  /\ tasks = [t \in TaskIds |-> NoTask]
  /\ deletes = 0
  /\ emitted = <<>>
  /\ response = NoResponse
  /\ sentLog = <<>>

(***************************************************************************)
(* io.use + io.on('connection'): a handshake with a valid token of user u. *)
(***************************************************************************)
\* socket.broadcast.emit('user:online', ...) of the connection handler
ConnectBroadcast(c, u) == <<Ev("user:online", LiveConns \ {c}, u, "")>>

Connect(c, u) ==
  /\ sockets[c].state = "free"
  /\ \A d \in Conns : d < c => sockets[d].state # "free"
  /\ sockets' = [sockets EXCEPT ![c] =
        [state |-> "active", userId |-> u, accountType |-> accountType[u],
         rooms |-> {UserRoom(u)}]]
  /\ pendingStatus' = pendingStatus \cup {[conn |-> c, value |-> TRUE]}
  /\ emitted' = ConnectBroadcast(c, u)
  /\ response' = NoResponse
  /\ UNCHANGED <<accountType, isOnline, messages, nextId, now, tasks, deletes, sentLog>>

(***************************************************************************)
(* io.use when it does not let the handshake through.  A handshake carries *)
(* no token, a token verifyToken throws on, or a verified token that names *)
(* a user id; the SELECT on users returns (dbOk) or rejects.               *)
(***************************************************************************)
NoToken == [kind |-> "none", userId |-> NoUser]
BadToken == [kind |-> "invalid", userId |-> NoUser]
TokenOf(u) == [kind |-> "valid", userId |-> u]

\* the Error the middleware hands to next(), "" when it calls next()
AuthError(token, dbOk) ==
  IF token.kind = "none" THEN "Authentication required"
  ELSE IF token.kind = "invalid" \/ ~dbOk THEN "Authentication failed"
  ELSE IF token.userId \notin Users THEN "User not found"
  ELSE ""

\* faulty variant: next() is called without the error, the socket connects
RejectedSocketConnected(token) == [NoSocket EXCEPT !.state = "active"]
\* next(new Error(...)): socket.io closes the socket, which never had
\* userId, username or accountType set and never saw the connection handler
RejectedSocket(token) == [NoSocket EXCEPT !.state = "closed"]

\* the CONNECT_ERROR packet socket.io answers the refused handshake with
HandshakeError(c, token, dbOk) == <<Ev("connect_error", {c}, 0, AuthError(token, dbOk))>>

HandshakeReject(c, token, dbOk) ==
  /\ sockets[c].state = "free"
  /\ \A d \in Conns : d < c => sockets[d].state # "free"
  /\ AuthError(token, dbOk) # ""
  /\ sockets' = [sockets EXCEPT ![c] = RejectedSocket(token)]
  /\ emitted' = HandshakeError(c, token, dbOk)
  /\ response' = NoResponse
  /\ UNCHANGED <<accountType, isOnline, pendingStatus, messages, nextId, now, tasks,
                 deletes, sentLog>>

(***************************************************************************)
(* socket.on('disconnect'): the transport closes, the handler issues the   *)
(* UPDATE and awaits it.                                                   *)
(***************************************************************************)
\* faulty variant: the socket leaves its rooms but goes on taking events
AfterDisconnectOpen(s) == [s EXCEPT !.rooms = {}]
\* the socket at the time its 'disconnect' listener runs: socket.io has
\* closed it and taken it out of all its rooms
AfterDisconnect(s) == [s EXCEPT !.state = "closing", !.rooms = {}]

Disconnect(c) ==
  /\ sockets[c].state = "active"
  /\ sockets' = [sockets EXCEPT ![c] = AfterDisconnect(@)]
  /\ pendingStatus' = pendingStatus \cup {[conn |-> c, value |-> FALSE]}
  /\ emitted' = <<>>
  /\ response' = NoResponse
  /\ UNCHANGED <<accountType, isOnline, messages, nextId, now, tasks, deletes, sentLog>>

\* socket.broadcast.emit('user:offline', ...) after the awaited UPDATE
DisconnectBroadcast(c) == <<Ev("user:offline", LiveConns \ {c}, sockets[c].userId, "")>>

(***************************************************************************)
(* The database applies one of the pending is_online UPDATEs (the pool     *)
(* runs them on separate connections, in any order).  The connection       *)
(* handler does not await its UPDATE; the disconnect handler does, and     *)
(* goes on to broadcast user:offline.                                      *)
(***************************************************************************)
ApplyStatus(p) ==
  /\ p \in pendingStatus
  /\ pendingStatus' = pendingStatus \ {p}
  /\ isOnline' = [isOnline EXCEPT ![sockets[p.conn].userId] = p.value]
  /\ IF p.value
       THEN /\ emitted' = <<>>
            /\ UNCHANGED sockets
       ELSE /\ emitted' = DisconnectBroadcast(p.conn)
            /\ sockets' = [sockets EXCEPT ![p.conn].state = "closed"]
  /\ response' = NoResponse
  /\ UNCHANGED <<accountType, messages, nextId, now, tasks, deletes, sentLog>>

(***************************************************************************)
(* A pending is_online UPDATE rejects (the store is unavailable).  Neither *)
(* caller handles the rejection: the connection handler drops the promise  *)
(* of query(...), the async disconnect listener awaits it outside any      *)
(* try/catch and socket.io ignores the promise the listener returns.  The  *)
(* module installs no 'unhandledRejection' handler, so what follows is up  *)
(* to the runtime: it warns and goes on, or it ends the process (fatal).   *)
(***************************************************************************)
UnhandledRejection(p) == <<Ev("unhandledRejection", {}, sockets[p.conn].userId, "")>>

\* the sockets after the process has ended: every open socket is closed
AfterExit == [c \in Conns |->
                IF sockets[c].state = "free" THEN sockets[c]
                ELSE [sockets[c] EXCEPT !.state = "closed", !.rooms = {}]]

StatusFail(p, fatal) ==
  /\ p \in pendingStatus
  /\ emitted' = UnhandledRejection(p)
  /\ response' = NoResponse
  /\ IF fatal
       THEN /\ sockets' = AfterExit
            /\ pendingStatus' = {}
            /\ tasks' = [t \in TaskIds |-> NoTask]
       ELSE /\ pendingStatus' = pendingStatus \ {p}
            \* the disconnect listener never reaches its broadcast
            /\ sockets' = IF p.value THEN sockets
                          ELSE [sockets EXCEPT ![p.conn].state = "closed"]
            /\ UNCHANGED tasks
  /\ UNCHANGED <<accountType, isOnline, messages, nextId, now, deletes, sentLog>>

(***************************************************************************)
(* socket.on('location:update'): the UPDATE of the location columns (not   *)
(* modelled) is awaited inside try/catch; when it resolves the position is *)
(* broadcast, when it rejects the catch block logs and the handler ends.   *)
(***************************************************************************)
LocationBroadcast(c) == <<Ev("user:location", LiveConns \ {c}, sockets[c].userId, "")>>

LocationUpdate(c, dbOk) ==
  /\ sockets[c].state = "active"
  /\ emitted' = IF dbOk THEN LocationBroadcast(c) ELSE <<>>
  /\ response' = NoResponse
  /\ UNCHANGED <<accountType, isOnline, sockets, pendingStatus, messages, nextId, now,
                 tasks, deletes, sentLog>>

(***************************************************************************)
(* REST routes that write users.is_online.                                 *)
(***************************************************************************)
\* POST /api/auth/login with valid credentials of u
Login(u) ==
  /\ accountType[u] = "registered"
  /\ isOnline' = [isOnline EXCEPT ![u] = TRUE]
  /\ response' = Resp(200, u, "")
  /\ emitted' = <<>>
  /\ UNCHANGED <<accountType, sockets, pendingStatus, messages, nextId, now, tasks,
                 deletes, sentLog>>

\* POST /api/auth/logout
Logout(u) ==
  /\ isOnline' = [isOnline EXCEPT ![u] = FALSE]
  /\ response' = Resp(200, u, "")
  /\ emitted' = <<>>
  /\ UNCHANGED <<accountType, sockets, pendingStatus, messages, nextId, now, tasks,
                 deletes, sentLog>>

\* POST /api/users/online {isOnline: b}
PostOnline(u, b) ==
  /\ isOnline' = [isOnline EXCEPT ![u] = b]
  /\ response' = Resp(200, u, "")
  /\ emitted' = <<>>
  /\ UNCHANGED <<accountType, sockets, pendingStatus, messages, nextId, now, tasks,
                 deletes, sentLog>>

(***************************************************************************)
(* POST /api/auth/upgrade of routes/auth.js: 400 when the email belongs to *)
(* another user, else users.account_type becomes 'registered'.  The route  *)
(* has no handle on the socket.io server: the sockets stay as they are.    *)
(***************************************************************************)
\* faulty variant: the open sockets of the user are given the new account type
SocketsAfterUpgradeRefreshed(u) ==
  [c \in Conns |-> IF sockets[c].userId = u
                     THEN [sockets[c] EXCEPT !.accountType = "registered"]
                     ELSE sockets[c]]
SocketsAfterUpgrade(u) == sockets

Upgrade(u, emailTaken) ==
  /\ emitted' = <<>>
  /\ IF emailTaken
       THEN /\ response' = Resp(400, u, "Email already registered")
            /\ UNCHANGED <<accountType, sockets>>
       ELSE /\ response' = Resp(200, u, "")
            /\ accountType' = [accountType EXCEPT ![u] = "registered"]
            /\ sockets' = SocketsAfterUpgrade(u)
  /\ UNCHANGED <<isOnline, pendingStatus, messages, nextId, now, tasks, deletes, sentLog>>

(***************************************************************************)
(* socket.on('chat:join') / socket.on('chat:leave') with payload {userId}. *)
(***************************************************************************)
ChatJoin(c, x) ==
  /\ sockets[c].state = "active"
  /\ sockets' = [sockets EXCEPT ![c].rooms = @ \cup {ChatRoom(sockets[c].userId, x)}]
  /\ emitted' = <<>>
  /\ response' = NoResponse
  /\ UNCHANGED <<accountType, isOnline, pendingStatus, messages, nextId, now, tasks,
                 deletes, sentLog>>

ChatLeave(c, x) ==
  /\ sockets[c].state = "active"
  /\ sockets' = [sockets EXCEPT ![c].rooms = @ \ {ChatRoom(sockets[c].userId, x)}]
  /\ emitted' = <<>>
  /\ response' = NoResponse
  /\ UNCHANGED <<accountType, isOnline, pendingStatus, messages, nextId, now, tasks,
                 deletes, sentLog>>

(***************************************************************************)
(* chat:join with a userId the client crafted.  The room name is computed  *)
(* on strings: a string is a sequence of code units, Dash the '-' (which   *)
(* sorts before every digit), and a user id a string of one fixed length   *)
(* (users.id is a UUID).                                                   *)
(***************************************************************************)
Dash == 0
MaxPayloadLen == 3
IdStr(u) == <<u>>
\* the payload without a userId
UndefinedId == <<-1>>
Payloads == UNION {[1..n -> 0..3] : n \in 0..MaxPayloadLen}

\* s < t in code unit order
RECURSIVE StrLess(_, _)
StrLess(s, t) ==
  IF t = <<>> THEN FALSE
  ELSE IF s = <<>> THEN TRUE
  ELSE IF Head(s) # Head(t) THEN Head(s) < Head(t)
  ELSE StrLess(Tail(s), Tail(t))

\* [a, b].sort(): undefined goes last, strings in code unit order
SortPair(a, b) ==
  IF b = UndefinedId THEN <<a, b>>
  ELSE IF StrLess(b, a) THEN <<b, a>> ELSE <<a, b>>

\* Array.prototype.join('-'): undefined is joined as the empty string
JoinDash(pair) ==
  LET str(x) == IF x = UndefinedId THEN <<>> ELSE x
  IN  str(pair[1]) \o <<Dash>> \o str(pair[2])

\* faulty variant: the room is named by the payload alone
RoomNameOfPayload(own, payload) == IF payload = UndefinedId THEN <<>> ELSE payload
RoomName(own, payload) == JoinDash(SortPair(own, payload))

\* the room of that name: the chat room of two users when it is theirs
NamedRoom(name) ==
  IF /\ Len(name) = 3
     /\ name[2] = Dash
     /\ name[1] \in Users
     /\ name[3] \in Users
     /\ name = RoomName(IdStr(name[1]), IdStr(name[3]))
  THEN ChatRoom(name[1], name[3])
  ELSE [kind |-> "chat", id |-> name]

ChatJoinRaw(c, payload) ==
  /\ sockets[c].state = "active"
  /\ sockets' = [sockets EXCEPT ![c].rooms =
                    @ \cup {NamedRoom(RoomName(IdStr(sockets[c].userId), payload))}]
  /\ emitted' = <<>>
  /\ response' = NoResponse
  /\ UNCHANGED <<accountType, isOnline, pendingStatus, messages, nextId, now, tasks,
                 deletes, sentLog>>

(***************************************************************************)
(* socket.on('typing:start') / socket.on('typing:stop') with payload       *)
(* {userId}: relayed to the chat room, with the typing user's id.          *)
(***************************************************************************)
\* faulty variant: io.to(room), which also reaches the emitting socket
TypingToAll(c, x) == InRoom(ChatRoom(sockets[c].userId, x))
\* socket.to(`chat:${roomId}`): the sockets in the room but the emitting one
TypingTo(c, x) == InRoom(ChatRoom(sockets[c].userId, x)) \ {c}

Typing(c, x, type) ==
  /\ sockets[c].state = "active"
  /\ emitted' = <<Ev(type, TypingTo(c, x), sockets[c].userId, "")>>
  /\ response' = NoResponse
  /\ UNCHANGED <<accountType, isOnline, sockets, pendingStatus, messages, nextId, now,
                 tasks, deletes, sentLog>>

TypingStart(c, x) == Typing(c, x, "typing:start")
TypingStop(c, x) == Typing(c, x, "typing:stop")

(***************************************************************************)
(* The messages table.                                                     *)
(***************************************************************************)
\* faulty variant: the window takes in the row created exactly one day ago
InWindowInclusive(m, t) == m.createdAt >= t - TicksPerDay
\* created_at > NOW() - INTERVAL '1 day'
InWindow(m, t) == m.createdAt > t - TicksPerDay
\* SELECT COUNT(*) FROM messages WHERE sender_id = $1 AND created_at > NOW() - INTERVAL '1 day'
CountRecent(u, t) == Cardinality({m \in messages : m.sender = u /\ InWindow(m, t)})
\* faulty variant: the limit is tested with > instead of >=
RateLimitedOffByOne(n) == n > MessageLimit
\* parseInt(messageCount.rows[0].count) >= 5
RateLimited(n) == n >= MessageLimit

\* The row INSERT INTO messages ... RETURNING builds: content || null,
\* imageUrl || null, is_read DEFAULT false, created_at DEFAULT NOW().
NewRow(task) ==
  [id |-> nextId, sender |-> task.user, receiver |-> task.receiver,
   content |-> OrNull(task.content), imageUrl |-> OrNull(task.imageUrl),
   isRead |-> FALSE, createdAt |-> now]
\* sender_id / receiver_id UUID REFERENCES users(id): NULL or an existing row
ForeignKeysHold(row) ==
  /\ row.sender \in Users
  /\ row.receiver \in Users \cup {NoUser}

\* faulty variant: one handler at a time, a new one waits for the one in flight
FreeTasksWhenIdle == IF \A t \in TaskIds : tasks[t].pc = "free" THEN TaskIds ELSE {}
FreeTasks == {t \in TaskIds : tasks[t].pc = "free"}
\* no handler is suspended
Idle == FreeTasks = TaskIds
\* the slot a newly suspended handler takes
\* faulty variant: the invocations of a handler share one set of locals
FreshTaskShared == CHOOSE t \in TaskIds : \A s \in TaskIds : t <= s
FreshTask == CHOOSE t \in FreeTasks : \A s \in FreeTasks : t <= s

\* socket.emit(...) reaches the socket only while it is connected
ToSocket(c) == {c} \cap LiveConns

(***************************************************************************)
(* socket.on('message:send'), up to its first await: a restricted          *)
(* identity awaits the count query, any other goes straight to the insert. *)
(***************************************************************************)
\* faulty variant: the account type is not looked at
MessageSendPcAlways(tier) == "count"
MessageSendPc(tier) == IF tier = "anonymous" THEN "count" ELSE "insert"

MessageSend(c, r, content, imageUrl) ==
  /\ sockets[c].state = "active"
  /\ FreeTasks # {}
  /\ tasks' = [tasks EXCEPT ![FreshTask] =
        [pc |-> MessageSendPc(sockets[c].accountType), kind |-> "socket", conn |-> c,
         user |-> sockets[c].userId, tier |-> sockets[c].accountType,
         receiver |-> r, content |-> content, imageUrl |-> imageUrl, id |-> 0]]
  /\ emitted' = <<>>
  /\ response' = NoResponse
  /\ UNCHANGED <<accountType, isOnline, sockets, pendingStatus, messages, nextId, now,
                 deletes, sentLog>>

(***************************************************************************)
(* router.post('/:userId') of routes/messages.js, up to the recipient      *)
(* query: authenticate loads req.user, the validator trims content and     *)
(* checks its length, the handler rejects an empty payload.                *)
(***************************************************************************)
\* body('content').optional().trim().isLength({ max: 2000 })
ContentTooLong(content) == content.present /\ StrLen(Trim(content)) > MaxContentLen
\* faulty variant: the payload must carry exactly one of content and imageUrl
EmptyPayloadUnlessOne(content, imageUrl) == Falsy(Trim(content)) = Falsy(imageUrl)
\* !content && !imageUrl, on the sanitized body
EmptyPayload(content, imageUrl) == Falsy(Trim(content)) /\ Falsy(imageUrl)

RestPost(u, r, content, imageUrl) ==
  /\ FreeTasks # {}
  /\ emitted' = <<>>
  /\ IF ContentTooLong(content)
       THEN /\ response' = MessageResp(400, u, "Message too long", Trim(content), imageUrl)
            /\ UNCHANGED tasks
       ELSE IF EmptyPayload(content, imageUrl)
       THEN /\ response' = MessageResp(400, u, "Message content or image required",
                                         Trim(content), imageUrl)
            /\ UNCHANGED tasks
       ELSE /\ response' = NoResponse
            /\ tasks' = [tasks EXCEPT ![FreshTask] =
                  [pc |-> "recipient", kind |-> "rest", conn |-> 0, user |-> u,
                   tier |-> accountType[u], receiver |-> r, content |-> Trim(content),
                   imageUrl |-> imageUrl, id |-> 0]]
  /\ UNCHANGED <<accountType, isOnline, sockets, pendingStatus, messages, nextId, now,
                 deletes, sentLog>>

\* SELECT id FROM users WHERE id = $1 returned: 404, or on to the rate limit
RecipientDone(t) ==
  /\ tasks[t].pc = "recipient"
  /\ emitted' = <<>>
  /\ IF tasks[t].receiver \notin Users
       THEN /\ response' = TaskResp(404, tasks[t], "Recipient not found")
            /\ tasks' = [tasks EXCEPT ![t] = NoTask]
       ELSE /\ response' = NoResponse
            /\ tasks' = [tasks EXCEPT ![t].pc = MessageSendPc(tasks[t].tier)]
  /\ UNCHANGED <<accountType, isOnline, sockets, pendingStatus, messages, nextId, now,
                 deletes, sentLog>>

(***************************************************************************)
(* The count query returned (both handlers): at the limit the handler      *)
(* reports it and returns, below it the handler issues the insert.         *)
(***************************************************************************)
LimitError(task) ==
  <<Ev("message:error", ToSocket(task.conn), 0, "Daily message limit reached")>>

CountDone(t) ==
  /\ tasks[t].pc = "count"
  /\ IF RateLimited(CountRecent(tasks[t].user, now))
       THEN /\ tasks' = [tasks EXCEPT ![t] = NoTask]
            /\ IF tasks[t].kind = "socket"
                 THEN emitted' = LimitError(tasks[t]) /\ response' = NoResponse
                 ELSE /\ emitted' = <<>>
                      /\ response' = TaskResp(403, tasks[t], "Daily message limit reached")
       ELSE /\ tasks' = [tasks EXCEPT ![t].pc = "insert"]
            /\ emitted' = <<>>
            /\ response' = NoResponse
  /\ UNCHANGED <<accountType, isOnline, sockets, pendingStatus, messages, nextId, now,
                 deletes, sentLog>>

(***************************************************************************)
(* The INSERT committed.  The REST handler answers 201; the socket handler *)
(* resumes in a later turn of the event loop (FanOut).                     *)
(***************************************************************************)
InsertCommit(t, cap) ==
  /\ tasks[t].pc = "insert"
  /\ nextId <= cap
  /\ ForeignKeysHold(NewRow(tasks[t]))
  /\ messages' = messages \cup {NewRow(tasks[t])}
  /\ sentLog' = Append(sentLog, <<tasks[t].user, now>>)
  /\ nextId' = nextId + 1
  /\ emitted' = <<>>
  /\ IF tasks[t].kind = "socket"
       THEN /\ tasks' = [tasks EXCEPT ![t].pc = "fanout", ![t].id = nextId]
            /\ response' = NoResponse
       ELSE /\ tasks' = [tasks EXCEPT ![t] = NoTask]
            /\ response' = TaskResp(201, tasks[t], "")
  /\ UNCHANGED <<accountType, isOnline, sockets, pendingStatus, now, deletes>>

(***************************************************************************)
(* A query of the handler rejected (the store is unavailable, or the       *)
(* insert breaks a foreign key): the catch block reports it.               *)
(***************************************************************************)
\* faulty variant: the catch block acknowledges the message it failed to insert
FailureErrorAcked(task) == <<Ev("message:sent", ToSocket(task.conn), nextId, "")>>
FailureError(task) ==
  <<Ev("message:error", ToSocket(task.conn), 0, "Failed to send message")>>

\* faulty variant: the handler issues the INSERT again after the failure
AfterFailureRetry(task) == [task EXCEPT !.pc = "insert"]
\* the catch block reports and the handler returns
AfterFailure(task) == NoTask

QueryFail(t) ==
  /\ tasks[t].pc \in {"recipient", "count", "insert"}
  /\ tasks' = [tasks EXCEPT ![t] = AfterFailure(tasks[t])]
  /\ IF tasks[t].kind = "socket"
       THEN emitted' = FailureError(tasks[t]) /\ response' = NoResponse
       ELSE /\ emitted' = <<>>
            /\ response' = TaskResp(500, tasks[t], "Failed to send message")
  /\ UNCHANGED <<accountType, isOnline, sockets, pendingStatus, messages, nextId, now,
                 deletes, sentLog>>

(***************************************************************************)
(* message:send after the insert: message:sent to the sender's socket,     *)
(* message:received to the chat room, message:notification to the          *)
(* receiver's personal room (socket.to excludes the sending socket).       *)
(***************************************************************************)
\* faulty variant: nothing is delivered once the sending socket has gone
ReceivedToIfSenderOpen(task) ==
  IF task.conn \in LiveConns
    THEN InRoom(ChatRoom(task.user, task.receiver)) \ {task.conn}
    ELSE {}
\* socket.to(`chat:${roomId}`): the sockets in the chat room but the sender's
ReceivedTo(task) == InRoom(ChatRoom(task.user, task.receiver)) \ {task.conn}
\* faulty variant: the sockets that already get message:received are skipped
NotificationToOthers(task) ==
  (InRoom(UserRoom(task.receiver)) \ InRoom(ChatRoom(task.user, task.receiver))) \ {task.conn}
\* socket.to(`user:${receiverId}`): the sockets in the receiver's personal room
\* but the sender's
NotificationTo(task) == InRoom(UserRoom(task.receiver)) \ {task.conn}

\* faulty variant: the notification is emitted before the acknowledgment
FanOutEventsNotifyFirst(task) ==
  <<Ev("message:notification", NotificationTo(task), task.id, "senderName"),
    Ev("message:sent", ToSocket(task.conn), task.id, ""),
    Ev("message:received", ReceivedTo(task), task.id, "")>>
FanOutEvents(task) ==
  <<Ev("message:sent", ToSocket(task.conn), task.id, ""),
    Ev("message:received", ReceivedTo(task), task.id, ""),
    Ev("message:notification", NotificationTo(task), task.id, "senderName")>>

FanOut(t) ==
  /\ tasks[t].pc = "fanout"
  /\ emitted' = FanOutEvents(tasks[t])
  /\ tasks' = [tasks EXCEPT ![t] = NoTask]
  /\ response' = NoResponse
  /\ UNCHANGED <<accountType, isOnline, sockets, pendingStatus, messages, nextId, now,
                 deletes, sentLog>>

(***************************************************************************)
(* router.get('/:userId') of routes/messages.js, requested by user u for   *)
(* the conversation with x: the SELECT (its rows are the response body,    *)
(* not modelled) and then the UPDATE that marks as read what x sent to u.  *)
(***************************************************************************)
\* faulty variant: the whole conversation is marked, both directions
FetchMarksBoth(m, u, x) ==
  \/ m.sender = x /\ m.receiver = u
  \/ m.sender = u /\ m.receiver = x
\* WHERE sender_id = $1 AND receiver_id = $2, with [userId, req.user.id]
FetchMarks(m, u, x) == m.sender = x /\ m.receiver = u

Fetch(u, x) ==
  /\ messages' = {IF FetchMarks(m, u, x) THEN [m EXCEPT !.isRead = TRUE] ELSE m :
                    m \in messages}
  /\ response' = Resp(200, u, "")
  /\ emitted' = <<>>
  /\ UNCHANGED <<accountType, isOnline, sockets, pendingStatus, nextId, now, tasks,
                 deletes, sentLog>>

(***************************************************************************)
(* router.delete('/:messageId') of routes/messages.js.                     *)
(***************************************************************************)
\* a :messageId that is no UUID: the SELECT on messages.id rejects it
MalformedId == 0

Delete(u, id) ==
  /\ deletes < MaxDeletes
  /\ deletes' = deletes + 1
  /\ emitted' = <<>>
  /\ LET found == {m \in messages : m.id = id} IN
       IF id = MalformedId
         THEN response' = Resp(500, u, "Failed to delete message") /\ UNCHANGED messages
         ELSE IF found = {}
         THEN response' = Resp(404, u, "Message not found") /\ UNCHANGED messages
         ELSE IF \E m \in found : m.sender # u
         THEN /\ response' = Resp(403, u, "Can only delete your own messages")
              /\ UNCHANGED messages
         ELSE response' = Resp(200, u, "") /\ messages' = messages \ found
  /\ UNCHANGED <<accountType, isOnline, sockets, pendingStatus, nextId, now, tasks, sentLog>>

\* time passes
Tick ==
  /\ now < MaxTime
  /\ now' = now + 1
  /\ emitted' = <<>>
  /\ response' = NoResponse
  /\ UNCHANGED <<accountType, isOnline, sockets, pendingStatus, messages, nextId, tasks,
                 deletes, sentLog>>

(***************************************************************************)
(* Presence: connections of two users and the routes that write is_online. *)
(***************************************************************************)
PresenceUsers == {1, 2}

NextPresence ==
  \/ \E c \in Conns, u \in PresenceUsers : Connect(c, u)
  \/ \E c \in Conns : Disconnect(c)
  \/ \E p \in pendingStatus : ApplyStatus(p)
  \/ \E u \in PresenceUsers : Login(u)
  \/ \E u \in PresenceUsers : Logout(u)
  \/ \E u \in PresenceUsers, b \in BOOLEAN : PostOnline(u, b)

SpecPresence == Init /\ [][NextPresence]_vars

\* the presence events about user u among the events evs
EventsAbout(evs, type, u) == {i \in DOMAIN evs : evs[i].type = type /\ evs[i].ref = u}

\* C1: for every user U, a step broadcasts user:online about U exactly once
\* if it takes U's number of live connections from 0 to 1 and not at all
\* otherwise, and a step broadcasts user:offline about U at most once, and
\* only when no connection of U is live any more.
C1_PresenceOncePerEdge ==
  [][\A u \in PresenceUsers :
       /\ Cardinality(EventsAbout(emitted', "user:online", u)) =
            (IF LiveOf(u) = {} /\ Cardinality(LiveOf(u)') = 1 THEN 1 ELSE 0)
       /\ Cardinality(EventsAbout(emitted', "user:offline", u)) <= 1
       /\ EventsAbout(emitted', "user:offline", u) # {} => LiveOf(u)' = {}]_vars

\* C2: whenever no is_online UPDATE is pending, users.is_online of every user
\* is true iff the user has a live socket connection.
C2_StatusMatchesConnections ==
  pendingStatus = {} => \A u \in Users : isOnline[u] = (LiveOf(u) # {})

(***************************************************************************)
(* Rate limit: one sender, over one socket and the REST route, with up to  *)
(* MaxInFlight handlers suspended at once, while time passes.              *)
(***************************************************************************)
Text == Str(0, 1)
RateConns == {1}

NextRate(u, peer, overlap) ==
  \/ \E c \in RateConns : Connect(c, u)
  \/ /\ overlap \/ Idle
     /\ \E c \in RateConns : MessageSend(c, peer, Text, Undefined)
  \/ /\ overlap \/ Idle
     /\ RestPost(u, peer, Text, Undefined)
  \/ \E t \in TaskIds : RecipientDone(t)
  \/ \E t \in TaskIds : CountDone(t)
  \/ \E t \in TaskIds : InsertCommit(t, MaxMsgsRate)
  \/ \E t \in TaskIds : QueryFail(t)
  \/ \E t \in TaskIds : FanOut(t)
  \/ Tick

\* the restricted user 1, handlers overlapping freely
NextRestricted == NextRate(1, 2, TRUE)
SpecRestricted == Init /\ [][NextRestricted]_vars

\* the restricted user 1, one operation at a time, deletes among them
NextSequential ==
  \/ NextRate(1, 2, FALSE)
  \/ /\ Idle
     /\ \E id \in 1..nextId : Delete(1, id)
SpecSequential == Init /\ [][NextSequential]_vars

\* the registered user 2 on its socket and on the REST route, next to REST
\* sends of the restricted user 1, one send at a time
NextFull ==
  \/ \E c \in RateConns : Connect(c, 2)
  \/ /\ Idle
     /\ \E c \in RateConns : MessageSend(c, 1, Text, Undefined)
  \/ /\ Idle
     /\ \E u \in {1, 2} : RestPost(u, 3 - u, Text, Undefined)
  \/ \E t \in TaskIds : RecipientDone(t)
  \/ \E t \in TaskIds : CountDone(t)
  \/ \E t \in TaskIds : InsertCommit(t, MaxMsgsRate)
  \/ \E t \in TaskIds : QueryFail(t)
  \/ \E t \in TaskIds : FanOut(t)
  \/ Tick
SpecFull == Init /\ [][NextFull]_vars

\* the rows of sender u created inside the 24 hours that end at time t
RecentRows(u, t) == {m \in messages : m.sender = u /\ t - m.createdAt < TicksPerDay}
\* the inserts of sender u accepted inside the 24 hours that end at time t
AcceptedIn(u, t) ==
  {i \in DOMAIN sentLog :
     sentLog[i][1] = u /\ sentLog[i][2] <= t /\ t - sentLog[i][2] < TicksPerDay}
LimitReported(task, evs, resp) ==
  IF task.kind = "socket"
    THEN evs = <<Ev("message:error", {task.conn} \cap LiveConns, 0, "Daily message limit reached")>>
    ELSE resp.status = 403 /\ resp.error = "Daily message limit reached"
FanOutTypes == {"message:sent", "message:received", "message:notification"}

\* C4: when the count query of a restricted sender returns while exactly
\* MessageLimit rows of the sender are inside the trailing 24 hours, the
\* handler reports the rate limit, returns, and the step neither inserts nor
\* fans out; when fewer are inside the window (the older rows have aged out)
\* the handler goes on to the insert, and a committed insert adds the row.
C4_LimitAtFive ==
  [][\A t \in TaskIds :
       /\ (CountDone(t) /\ tasks[t].tier = "anonymous") =>
            LET n == Cardinality(RecentRows(tasks[t].user, now)) IN
              /\ n = MessageLimit =>
                   /\ LimitReported(tasks[t], emitted', response')
                   /\ tasks'[t].pc = "free"
                   /\ messages' = messages /\ nextId' = nextId
                   /\ \A i \in DOMAIN emitted' : emitted'[i].type \notin FanOutTypes
              /\ n < MessageLimit =>
                   /\ tasks'[t].pc = "insert"
                   /\ emitted' = <<>> /\ response'.status = 0
       /\ InsertCommit(t, MaxMsgsRate) =>
            \E m \in messages' \ messages :
               m.id = nextId /\ m.sender = tasks[t].user /\ m.createdAt = now]_vars

\* C4 witness: the limit was just reported to user 1, who has exactly
\* MessageLimit rows inside the window and an older row outside it.
C4_Witness ==
  /\ \/ (emitted # <<>> /\ emitted[1].info = "Daily message limit reached")
     \/ response.status = 403
  /\ Cardinality(RecentRows(1, now)) = MessageLimit
  /\ \E m \in messages : m.sender = 1 /\ m \notin RecentRows(1, now)

\* C5 (as claimed): the restricted user 1, running sends and deletes one at a
\* time, has at most MessageLimit sends accepted in any rolling 24 hours.
C5_AtMostFiveAccepted ==
  \A t \in 0..now : Cardinality(AcceptedIn(1, t)) <= MessageLimit

\* C6: the rows of the restricted sender inside the trailing 24 hours can
\* exceed MessageLimit only by sends that were in flight together: each
\* handler passes the check with at most MessageLimit - 1 rows counted, so
\* MaxInFlight handlers leave at most MessageLimit - 1 + MaxInFlight rows.
C6_RaceBoundedByInFlight ==
  Cardinality(RecentRows(1, now)) <= MessageLimit - 1 + MaxInFlight

\* C6 witness: two overlapping sends both passed the check and both
\* persisted, so more than MessageLimit rows are inside the window.
C6_Witness == Cardinality(RecentRows(1, now)) > MessageLimit

\* C7: a sender whose identity is not anonymous never waits for a count
\* query and is never told the rate limit, however many rows it has: every
\* rate-limit error goes to an anonymous identity.
C7_FullNeverLimited ==
  /\ \A t \in TaskIds : tasks[t].tier # "anonymous" => tasks[t].pc # "count"
  /\ \A i \in DOMAIN emitted :
        emitted[i].info = "Daily message limit reached" =>
           \A c \in emitted[i].to : sockets[c].accountType = "anonymous"
  /\ (response.status = 403 /\ response.error = "Daily message limit reached") =>
        accountType[response.user] = "anonymous"

\* C7 witness: user 2 (registered) already has more than MessageLimit rows
\* inside the window and its next send was just fanned out.
C7_Witness ==
  /\ Cardinality(RecentRows(2, now)) > MessageLimit
  /\ emitted # <<>> /\ emitted[1].type = "message:sent" /\ emitted[1].ref = nextId - 1

(***************************************************************************)
(* Payloads: user 1 sends to user 2 (or to an id of no user) over its      *)
(* socket and over the REST route, one send at a time, with every shape of *)
(* content and imageUrl the handlers tell apart; user 2 listens.           *)
(***************************************************************************)
SendUsers == {1, 2}
SendReceivers == {2, Ghost}
SendContents == {Undefined, Str(1, 0), Text, Str(0, MaxContentLen),
                 Str(0, MaxContentLen + 1), Str(1, MaxContentLen)}
SendImages == {Undefined, Str(0, 1)}

NextSend ==
  \/ \E u \in SendUsers : Connect(u, u)
  \/ \E c \in SendUsers, x \in SendUsers : ChatJoin(c, x)
  \/ \E c \in SendUsers, x \in SendUsers : ChatLeave(c, x)
  \/ /\ Idle
     /\ \E r \in SendReceivers, content \in SendContents, imageUrl \in SendImages :
          MessageSend(1, r, content, imageUrl)
  \/ /\ Idle
     /\ \E r \in SendReceivers, content \in SendContents, imageUrl \in SendImages :
          RestPost(1, r, content, imageUrl)
  \/ \E t \in TaskIds : RecipientDone(t)
  \/ \E t \in TaskIds : CountDone(t)
  \/ \E t \in TaskIds : InsertCommit(t, MaxMsgsSend)
  \/ \E t \in TaskIds : QueryFail(t)
  \/ \E t \in TaskIds : FanOut(t)

SpecSend == Init /\ [][NextSend]_vars

\* a payload field is present: neither undefined nor null
Present(x) == x.present
BothPresent(content, imageUrl) == ~Falsy(content) /\ ~Falsy(imageUrl)

\* C3: every message:sent, message:received and message:notification a step
\* emits carries the id of a row that is in the messages table, inserted by
\* the emitting user: nothing is fanned out before or without the insert.
C3_PersistedBeforeFanOut ==
  \A i \in DOMAIN emitted :
     emitted[i].type \in FanOutTypes =>
        /\ emitted[i].ref < nextId
        /\ \E m \in messages : m.id = emitted[i].ref /\ m.sender = 1

\* C3 witness: message:received was just delivered to a socket in the chat
\* room, and the row it carries is stored.
C3_Witness ==
  \E i \in DOMAIN emitted :
     /\ emitted[i].type = "message:received"
     /\ emitted[i].to # {}
     /\ \E m \in messages : m.id = emitted[i].ref

\* C8 (as claimed): a send with content and imageUrl both absent never
\* reaches the insert or the fan-out, and no stored row lacks both.
C8_EmptyPayloadRejected ==
  /\ \A t \in TaskIds :
        (~Present(tasks[t].content) /\ ~Present(tasks[t].imageUrl)) =>
           tasks[t].pc \notin {"insert", "fanout"}
  /\ \A m \in messages : Present(m.content) \/ Present(m.imageUrl)

\* C9 (as claimed): a send that carries both a content and an imageUrl is
\* rejected: it never reaches the insert, and no stored row carries both.
C9_BothRejected ==
  /\ \A t \in TaskIds :
        BothPresent(tasks[t].content, tasks[t].imageUrl) =>
           tasks[t].pc \notin {"insert", "fanout"}
  /\ \A m \in messages : ~(Present(m.content) /\ Present(m.imageUrl))

\* C9 (amended): the REST route takes a send on only if content (trimmed) or
\* imageUrl is non-empty; a send that carries both is not rejected for it (the
\* route answers 400 only to a content that is too long or to a payload with
\* neither), and the row of a committed insert stores what the send carried,
\* both fields when it carried both.
C9_AtLeastOneOnRest ==
  /\ \A t \in TaskIds :
        tasks[t].kind = "rest" => ~Falsy(tasks[t].content) \/ ~Falsy(tasks[t].imageUrl)
  /\ response.status = 400 =>
        \/ StrLen(response.content) > MaxContentLen
        \/ Falsy(response.content) /\ Falsy(response.imageUrl)
  /\ response.status = 201 =>
        \E m \in messages :
           /\ m.id = nextId - 1
           /\ ~Falsy(response.content) => m.content = response.content
           /\ ~Falsy(response.imageUrl) => m.imageUrl = response.imageUrl
  /\ \A t \in TaskIds :
        tasks[t].pc = "fanout" =>
           \E m \in messages :
              /\ m.id = tasks[t].id
              /\ ~Falsy(tasks[t].content) => m.content = tasks[t].content
              /\ ~Falsy(tasks[t].imageUrl) => m.imageUrl = tasks[t].imageUrl

\* C9 witness: the REST route just answered 201 for a row that carries both
\* a content and an imageUrl.
C9_Witness ==
  /\ response.status = 201
  /\ \E m \in messages : m.id = nextId - 1 /\ Present(m.content) /\ Present(m.imageUrl)

\* C10 (as claimed): a send whose content is longer than MaxContentLen never
\* reaches the insert or the fan-out, and no stored row has such a content.
C10_LongContentRejected ==
  /\ \A t \in TaskIds :
        StrLen(tasks[t].content) > MaxContentLen =>
           tasks[t].pc \notin {"insert", "fanout"}
  /\ \A m \in messages : StrLen(m.content) <= MaxContentLen

\* C11 (as claimed): a send whose receiverId is the id of no user never gets
\* as far as the rate-limit query, the insert or the fan-out: the only query
\* a handler awaits for it is the recipient lookup.
C11_UnknownRecipientFirst ==
  \A t \in TaskIds :
     (tasks[t].pc # "free" /\ tasks[t].receiver \notin Users) =>
        tasks[t].pc = "recipient"

(***************************************************************************)
(* The gate and the rooms: handshakes of users 1 and 2 that pass or fail,  *)
(* and the connected sockets joining and leaving chat rooms and relaying   *)
(* typing indicators.                                                      *)
(***************************************************************************)
GateUsers == {1, 2}
GateTokens == {NoToken, BadToken, TokenOf(1), TokenOf(Ghost)}

NextGate ==
  \/ \E c \in Conns, u \in GateUsers : Connect(c, u)
  \/ \E c \in Conns, token \in GateTokens, dbOk \in BOOLEAN : HandshakeReject(c, token, dbOk)
  \/ \E c \in Conns, x \in GateUsers : ChatJoin(c, x)
  \/ \E c \in Conns, x \in GateUsers : ChatLeave(c, x)
  \/ \E c \in Conns, x \in GateUsers : TypingStart(c, x)
  \/ \E c \in Conns, x \in GateUsers : TypingStop(c, x)

SpecGate == Init /\ [][NextGate]_vars

\* the sockets whose handshake was refused: they never got a userId
Refused == {c \in Conns : sockets[c].state # "free" /\ sockets[c].userId \notin Users}
AuthErrors == {"Authentication required", "Authentication failed", "User not found"}

\* C12: a socket whose handshake had no token, a token that failed
\* verification or a token of no user is closed and stays inert: it is in no
\* room, no is_online UPDATE was issued for it, no handler runs for it; and
\* the step that refuses it emits the authentication error to it and nothing
\* else (no user:online).
C12_RefusedHandshakeInert ==
  /\ \A c \in Refused :
        /\ sockets[c].state = "closed"
        /\ sockets[c].rooms = {}
        /\ \A p \in pendingStatus : p.conn # c
        /\ \A t \in TaskIds : tasks[t].conn # c
  /\ \A i \in DOMAIN emitted :
        /\ emitted[i].to \cap Refused # {} =>
              /\ emitted = <<Ev("connect_error", emitted[i].to, 0, emitted[i].info)>>
              /\ emitted[i].info \in AuthErrors
        /\ emitted[i].type = "connect_error" => emitted[i].to \subseteq Refused

\* C12 witness: a handshake with a verified token of a user that no longer
\* exists was just refused while another socket is connected (and would have
\* been sent a user:online).
C12_Witness ==
  /\ emitted # <<>> /\ emitted[1].info = "User not found"
  /\ LiveConns # {}
  /\ Refused # {}

(***************************************************************************)
(* Fan-out: users 1 and 2 on up to three sockets, joining and leaving      *)
(* chat rooms and sending to each other and to themselves, one send at a   *)
(* time.                                                                   *)
(***************************************************************************)
FanUsers == {1, 2}
FanConns == {1, 2, 3}

NextFanOut ==
  \/ \E c \in FanConns, u \in FanUsers : Connect(c, u)
  \/ \E c \in FanConns, x \in FanUsers : ChatJoin(c, x)
  \/ \E c \in FanConns, x \in FanUsers : ChatLeave(c, x)
  \/ /\ Idle
     /\ \E c \in FanConns, r \in FanUsers : MessageSend(c, r, Text, Undefined)
  \/ \E t \in TaskIds : CountDone(t)
  \/ \E t \in TaskIds : InsertCommit(t, MaxMsgsSend)
  \/ \E t \in TaskIds : QueryFail(t)
  \/ \E t \in TaskIds : FanOut(t)

SpecFanOut == Init /\ [][NextFanOut]_vars

\* the step in which the socket handler suspended as task t runs its emits
FansOut(t) == tasks[t].pc = "fanout" /\ tasks'[t].pc # "fanout"
\* the sockets of user u that are connected and in (not in) the chat room of a and b
Joined(u, a, b) == {d \in LiveOf(u) : ChatRoom(a, b) \in sockets[d].rooms}
NotJoined(u, a, b) == LiveOf(u) \ Joined(u, a, b)

\* C13: the step that ends a persisted socket send emits exactly three
\* events about the stored row, in this order: message:sent to the sending
\* socket, message:received to sockets of the pairwise room other than the
\* sending one, message:notification with the sender's name to sockets of the
\* receiver's personal room; and no other step emits any of the three.
C13_FanOutOrder ==
  [][/\ \A t \in TaskIds :
          FansOut(t) =>
             /\ Len(emitted') = 3
             /\ \A i \in 1..3 :
                   /\ emitted'[i].ref = tasks[t].id
                   /\ \E m \in messages : m.id = emitted'[i].ref
             /\ emitted'[1].type = "message:sent"
             /\ emitted'[1].to = {tasks[t].conn}
             /\ emitted'[2].type = "message:received"
             /\ emitted'[2].to \subseteq
                   InRoom(ChatRoom(tasks[t].user, tasks[t].receiver)) \ {tasks[t].conn}
             /\ emitted'[3].type = "message:notification"
             /\ emitted'[3].info = "senderName"
             /\ emitted'[3].to \subseteq InRoom(UserRoom(tasks[t].receiver))
     /\ (\E i \in DOMAIN emitted' : emitted'[i].type \in FanOutTypes) =>
           \E t \in TaskIds : FansOut(t)]_vars

\* C13 witness: a send was just fanned out and each of its three events
\* reached a socket.
C13_Witness ==
  /\ Len(emitted) = 3
  /\ emitted[1].type = "message:sent"
  /\ \A i \in 1..3 : emitted[i].to # {}

\* C14 (as claimed): at the fan-out of a send to receiver r, every connected
\* socket of r that is in the pairwise chat room gets message:received, every
\* one that is not gets message:notification and not message:received, and
\* message:notification goes to every connected socket of r.
C14_EveryReceiverSocket ==
  [][\A t \in TaskIds :
       FansOut(t) =>
          LET s == tasks[t].user
              r == tasks[t].receiver
          IN /\ Joined(r, s, r) \subseteq emitted'[2].to
             /\ NotJoined(r, s, r) \cap emitted'[2].to = {}
             /\ LiveOf(r) \subseteq emitted'[3].to]_vars

\* C14 (amended): the same for every connected socket of r other than the
\* socket that sent the message, which gets neither event (it is sent
\* message:sent); and the two events go to no other socket.
C14_EveryOtherReceiverSocket ==
  [][\A t \in TaskIds :
       FansOut(t) =>
          LET s == tasks[t].user
              r == tasks[t].receiver
              c == tasks[t].conn
          IN /\ Joined(r, s, r) \ {c} \subseteq emitted'[2].to
             /\ NotJoined(r, s, r) \cap emitted'[2].to = {}
             /\ emitted'[3].to = LiveOf(r) \ {c}
             /\ emitted'[2].to \subseteq (Joined(r, s, r) \cup Joined(s, s, r)) \ {c}]_vars

\* C14 witness: a message was just fanned out to a receiver with two
\* sockets: message:received went to one of them only, message:notification
\* to both.
C14_Witness ==
  /\ Len(emitted) = 3
  /\ emitted[2].type = "message:received"
  /\ Cardinality(emitted[3].to) = 2
  /\ Cardinality(emitted[2].to) = 1
  /\ emitted[2].to \subseteq emitted[3].to

\* the connected sockets that are joined to the chat room of users a and b
RoomMembers(a, b) == {d \in Conns : sockets[d].state = "active" /\ ChatRoom(a, b) \in sockets[d].rooms}

\* C15: a typing:start (typing:stop) that socket c sends about user x is
\* emitted as one typing:start (typing:stop) event carrying the id of c's
\* user, to exactly the connected sockets joined to the room of c's user and
\* x other than c: never to c, to no socket outside the room; and the relay
\* changes no room.
C15_TypingToOthersInRoom ==
  [][\A type \in {"typing:start", "typing:stop"} :
       (emitted' # <<>> /\ emitted'[1].type = type) =>
          /\ \E c \in Conns, x \in GateUsers : Typing(c, x, type)
          /\ \A c \in Conns, x \in GateUsers :
                Typing(c, x, type) =>
                   /\ Len(emitted') = 1
                   /\ emitted'[1].ref = sockets[c].userId
                   /\ c \notin emitted'[1].to
                   /\ \A d \in Conns \ {c} :
                         d \in emitted'[1].to <=> d \in RoomMembers(sockets[c].userId, x)
                   /\ sockets' = sockets]_vars

\* C15 witness: a typing event was just relayed to some socket while a
\* socket of the typing user itself is joined to a chat room and another
\* connected socket is in no chat room.
C15_Witness ==
  /\ emitted # <<>>
  /\ emitted[1].type \in {"typing:start", "typing:stop"}
  /\ emitted[1].to # {}
  /\ \E c \in LiveOf(emitted[1].ref) : c \notin emitted[1].to /\ Cardinality(sockets[c].rooms) > 1
  /\ \E d \in LiveConns : Cardinality(sockets[d].rooms) = 1

\* the task of a message:send that socket c has in flight to receiver r
SendOf(c, r) == [NoTask EXCEPT !.conn = c, !.user = sockets[c].userId, !.receiver = r]

\* C16: for connected sockets c of user a and d of user b, the room id the
\* handlers of c compute for peer b is the one the handlers of d compute for
\* peer a; so once c has joined the chat with b (chat:join computed the room
\* on a's side) a typing relay of d about a and the message:received of a
\* message:send of d to a (both computed on b's side) are addressed to c,
\* and a chat:leave of d for a takes d out of that very room.
C16_RoomIdSymmetric ==
  \A c \in LiveConns, d \in LiveConns :
     LET a == sockets[c].userId
         b == sockets[d].userId
     IN /\ RoomId(a, b) = RoomId(b, a)
        /\ (c # d /\ ChatRoom(a, b) \in sockets[c].rooms) =>
              /\ c \in TypingTo(d, a)
              /\ c \in ReceivedTo(SendOf(d, a))
        /\ sockets[d].rooms \ {ChatRoom(b, a)} = sockets[d].rooms \ {ChatRoom(a, b)}

\* C16 witness: socket c of one user has joined the chat with another user,
\* whose socket just relayed a typing event that reached c.
C16_Witness ==
  \E c \in LiveConns, d \in LiveConns :
     /\ sockets[c].userId < sockets[d].userId
     /\ ChatRoom(sockets[c].userId, sockets[d].userId) \in sockets[c].rooms
     /\ emitted # <<>>
     /\ emitted[1].type = "typing:start"
     /\ emitted[1].ref = sockets[d].userId
     /\ c \in emitted[1].to

(***************************************************************************)
(* Disconnects during sends: socket 1 of user 1 and socket 2 of user 2     *)
(* join their chat room, send to each other, one send at a time, and       *)
(* disconnect at any moment.                                               *)
(***************************************************************************)
CancelConns == {1, 2}

NextCancel ==
  \/ \E c \in CancelConns : Connect(c, c)
  \/ \E c \in CancelConns : ChatJoin(c, 3 - c)
  \/ /\ Idle
     /\ \E c \in CancelConns : MessageSend(c, 3 - c, Text, Undefined)
  \/ \E t \in TaskIds : CountDone(t)
  \/ \E t \in TaskIds : InsertCommit(t, MaxMsgsSend)
  \/ \E t \in TaskIds : QueryFail(t)
  \/ \E t \in TaskIds : FanOut(t)
  \/ \E c \in CancelConns : Disconnect(c)
  \/ \E p \in pendingStatus : ApplyStatus(p)

SpecCancel == Init /\ [][NextCancel]_vars

\* socket c has had its disconnect
Gone(c) == sockets[c].state \in {"closing", "closed"}

\* C17: a disconnect leaves the handlers in flight and the messages table
\* as they are; and when a message:send whose socket is gone reaches its
\* emits, the row is stored, message:sent reaches no socket, message:received
\* goes to the receiver's sockets joined to the chat room and
\* message:notification to all the receiver's connected sockets.
C17_SendSurvivesDisconnect ==
  [][/\ (\E c \in CancelConns : ~Gone(c) /\ Gone(c)') =>
           tasks' = tasks /\ messages' = messages
     /\ \A t \in TaskIds :
           (FansOut(t) /\ Gone(tasks[t].conn)) =>
              /\ \E m \in messages :
                    /\ m.id = tasks[t].id
                    /\ m.sender = tasks[t].user
                    /\ m.receiver = tasks[t].receiver
              /\ Len(emitted') = 3
              /\ emitted'[1].type = "message:sent" /\ emitted'[1].to = {}
              /\ emitted'[2].type = "message:received"
              /\ emitted'[2].to = Joined(tasks[t].receiver, tasks[t].user, tasks[t].receiver)
              /\ emitted'[3].type = "message:notification"
              /\ emitted'[3].to = LiveOf(tasks[t].receiver)]_vars

\* C17 witness: the sender's socket is gone, its message is stored and was
\* just delivered to the receiver as message:received and
\* message:notification, and the acknowledgment went nowhere.
C17_Witness ==
  /\ Len(emitted) = 3
  /\ emitted[1].type = "message:sent" /\ emitted[1].to = {}
  /\ emitted[2].to # {} /\ emitted[3].to # {}
  /\ \E m \in messages : m.id = emitted[1].ref /\ \E c \in CancelConns :
        Gone(c) /\ sockets[c].userId = m.sender

\* the handler suspended as task t takes a step
Resumes(t) == tasks[t].pc # "free" /\ tasks'[t] # tasks[t]

InvalidPayload(task) ==
  EmptyPayload(task.content, task.imageUrl) \/ ContentTooLong(task.content)
\* the handler suspended as task t returns in this step
Ends(t) == tasks[t].pc # "free" /\ tasks'[t].pc = "free"

\* C19 (as claimed): the step in which a socket send ends as a failure (its
\* payload is invalid, or it ends before its insert committed: rate limit,
\* failed query) emits one message:error, to the sending socket and to no
\* other, and leaves every socket connected and in its rooms.
C19_FailureOnlyToSender ==
  [][\A t \in TaskIds :
       (Ends(t) /\ tasks[t].kind = "socket"
          /\ (InvalidPayload(tasks[t]) \/ tasks[t].pc # "fanout")) =>
          /\ Len(emitted') = 1
          /\ emitted'[1].type = "message:error"
          /\ emitted'[1].to = {tasks[t].conn}
          /\ sockets' = sockets
          /\ sockets[tasks[t].conn].state = "active"]_vars

\* C20: when a socket send ends at its INSERT without a row being added,
\* the failure is reported to the sender (message:error 'Failed to send
\* message' to the sending socket, if it is still connected), the handler
\* has returned (no second INSERT is issued) and the messages table is as it
\* was; and a failure reported for a send at its INSERT always ends the
\* handler and adds no row.
C20_InsertFailsOnce ==
  [][\A t \in TaskIds :
       LET reported ==
             emitted' = <<Ev("message:error", {tasks[t].conn} \cap LiveConns, 0,
                             "Failed to send message")>>
       IN /\ (tasks[t].pc = "insert" /\ tasks'[t] # tasks[t] /\ nextId' = nextId) =>
                reported /\ tasks'[t].pc = "free"
          /\ (tasks[t].pc = "insert" /\ reported) =>
                /\ tasks'[t].pc = "free"
                /\ messages' = messages /\ nextId' = nextId /\ sentLog' = sentLog
                /\ tasks[t].id = 0]_vars

\* C20 witness: the INSERT of a send of the registered user 2, who awaits no
\* other query, just failed: the error was emitted to its socket, the
\* handler has returned and nothing is stored.
C20_Witness ==
  /\ Idle
  /\ messages = {} /\ nextId = 1
  /\ emitted = <<Ev("message:error", {2}, 0, "Failed to send message")>>
  /\ sockets[2].accountType = "registered"

(***************************************************************************)
(* Failing collaborators: sockets of users 1 and 2 connect, send, update   *)
(* their location and disconnect while any query may reject.               *)
(***************************************************************************)
FaultConns == {1, 2}

NextFaults ==
  \/ \E c \in FaultConns : Connect(c, c)
  \/ \E c \in FaultConns : Disconnect(c)
  \/ \E p \in pendingStatus : ApplyStatus(p)
  \/ \E p \in pendingStatus, fatal \in BOOLEAN : StatusFail(p, fatal)
  \/ \E c \in FaultConns, dbOk \in BOOLEAN : LocationUpdate(c, dbOk)
  \/ /\ Idle
     /\ \E c \in FaultConns : MessageSend(c, 3 - c, Text, Undefined)
  \/ \E t \in TaskIds : CountDone(t)
  \/ \E t \in TaskIds : InsertCommit(t, MaxMsgsSend)
  \/ \E t \in TaskIds : QueryFail(t)
  \/ \E t \in TaskIds : FanOut(t)

SpecFaults == Init /\ [][NextFaults]_vars

\* C21 (as claimed): no rejected query is left unhandled, and no step closes
\* a socket other than the step that ends that socket's own disconnect.
C21_NoFailureEscapes ==
  [][/\ \A i \in DOMAIN emitted' : emitted'[i].type # "unhandledRejection"
     /\ \A c \in FaultConns :
           (sockets[c].state = "active" /\ sockets'[c].state # "active") =>
              sockets'[c].state = "closing"]_vars

(***************************************************************************)
(* Overlapping sends: socket 1 of user 1 and socket 2 of user 2 send to    *)
(* each other with up to MaxInFlight handlers suspended at once; the store *)
(* commits the inserts, and the handlers resume, in any order.             *)
(***************************************************************************)
OrderConns == {1, 2}

NextOrder ==
  \/ \E c \in OrderConns : Connect(c, c)
  \/ \E c \in OrderConns : ChatJoin(c, 3 - c)
  \/ \E c \in OrderConns : MessageSend(c, 3 - c, Text, Undefined)
  \/ \E t \in TaskIds : CountDone(t)
  \/ \E t \in TaskIds : InsertCommit(t, MaxInFlight)
  \/ \E t \in TaskIds : QueryFail(t)
  \/ \E t \in TaskIds : FanOut(t)

SpecOrder == Init /\ [][NextOrder]_vars

\* C22 (as claimed, persistence completing when the store commits the row):
\* a message of a sender is fanned out before every message of that sender
\* that was committed after it.
C22_FanOutInCommitOrder ==
  [][\A t \in TaskIds, t2 \in TaskIds :
       (FansOut(t) /\ tasks[t2].pc = "fanout" /\ tasks[t2].user = tasks[t].user
          /\ t2 # t) =>
          tasks[t].id < tasks[t2].id]_vars

\* C22 (amended): the fan-out of a message is emitted in the step in which
\* its INSERT returns to its handler, whatever the order in which the store
\* committed the rows: that step emits the three events of this one message
\* and no event of another, the other handlers in flight stay as they are,
\* and a handler that waits to resume is touched by no other step.
C22_FanOutWhenInsertReturns ==
  [][/\ \A t \in TaskIds :
          (tasks[t].pc = "fanout" /\ tasks'[t] # tasks[t]) =>
             /\ tasks'[t].pc = "free"
             /\ Len(emitted') = 3
             /\ \A i \in 1..3 : emitted'[i].ref = tasks[t].id
             /\ \E m \in messages : m.id = tasks[t].id /\ m.sender = tasks[t].user
             /\ \A t2 \in TaskIds \ {t} : tasks'[t2] = tasks[t2]
     /\ (\E i \in DOMAIN emitted' : emitted'[i].type \in FanOutTypes) =>
           \E t \in TaskIds : FansOut(t)]_vars

\* C22 witness: two messages of one sender are stored, the one committed
\* second was just fanned out and the one committed first still waits for
\* its handler to resume.
C22_Witness ==
  /\ Len(emitted) = 3
  /\ emitted[1].type = "message:sent"
  /\ \E t \in TaskIds :
        /\ tasks[t].pc = "fanout"
        /\ tasks[t].id < emitted[1].ref
        /\ \E m \in messages : m.id = emitted[1].ref /\ m.sender = tasks[t].user

(***************************************************************************)
(* Upgrade in mid-session: the restricted user 1 connects up to two        *)
(* sockets, sends to user 2 over them and over the REST route, one send at *)
(* a time, and upgrades its account at any moment.                         *)
(***************************************************************************)
UpgradeConns == {1, 2}

NextUpgrade ==
  \/ \E c \in UpgradeConns : Connect(c, 1)
  \/ \E emailTaken \in BOOLEAN : Upgrade(1, emailTaken)
  \/ \E c \in UpgradeConns : ChatJoin(c, 2)
  \/ /\ Idle
     /\ \E c \in UpgradeConns : MessageSend(c, 2, Text, Undefined)
  \/ /\ Idle
     /\ RestPost(1, 2, Text, Undefined)
  \/ \E t \in TaskIds : RecipientDone(t)
  \/ \E t \in TaskIds : CountDone(t)
  \/ \E t \in TaskIds : InsertCommit(t, MaxMsgsRate)
  \/ \E t \in TaskIds : QueryFail(t)
  \/ \E t \in TaskIds : FanOut(t)

SpecUpgrade == Init /\ [][NextUpgrade]_vars

\* C23: the user id and the account type of a connected socket never
\* change, whatever is stored for the user; a message:send handler takes its
\* tier from its socket (it awaits the count query iff the socket's snapshot
\* is anonymous), and the rate limit is reported only to sockets whose
\* snapshot is anonymous.
C23_SnapshotImmutable ==
  /\ [][\A c \in UpgradeConns :
          sockets[c].state = "active" =>
             /\ sockets'[c].userId = sockets[c].userId
             /\ sockets'[c].accountType = sockets[c].accountType]_vars
  /\ [](\A t \in TaskIds :
          tasks[t].kind = "socket" =>
             /\ tasks[t].tier = sockets[tasks[t].conn].accountType
             /\ tasks[t].pc = "count" => tasks[t].tier = "anonymous")
  /\ [][\A t \in TaskIds :
          (tasks[t].pc = "free" /\ tasks'[t].kind = "socket") =>
             (tasks'[t].pc = "count") = (sockets[tasks'[t].conn].accountType = "anonymous")]_vars
  /\ [](\A i \in DOMAIN emitted :
          emitted[i].info = "Daily message limit reached" =>
             \A c \in emitted[i].to : sockets[c].accountType = "anonymous")

\* C23 witness: user 1 is stored as registered, and the socket it opened
\* before the upgrade was just told the daily limit while a socket it opened
\* after the upgrade carries the registered tier.
C23_Witness ==
  /\ accountType[1] = "registered"
  /\ emitted = <<Ev("message:error", {1}, 0, "Daily message limit reached")>>
  /\ sockets[1].accountType = "anonymous"
  /\ sockets[2].state = "active" /\ sockets[2].accountType = "registered"

(***************************************************************************)
(* Reading: user 1 sends to user 2 and to itself, over its socket and over *)
(* the REST route, one send at a time, while every user fetches            *)
(* conversations.                                                          *)
(***************************************************************************)
ReadConns == {1, 2}
ReadReceivers == {1, 2}
MaxMsgsRead == MaxMsgsSend + 1

NextRead ==
  \/ \E c \in ReadConns : Connect(c, c)
  \/ \E c \in ReadConns, x \in ReadReceivers : ChatJoin(c, x)
  \/ /\ Idle
     /\ \E r \in ReadReceivers : MessageSend(1, r, Text, Undefined)
  \/ /\ Idle
     /\ \E r \in ReadReceivers : RestPost(1, r, Text, Undefined)
  \/ \E t \in TaskIds : RecipientDone(t)
  \/ \E t \in TaskIds : CountDone(t)
  \/ \E t \in TaskIds : InsertCommit(t, MaxMsgsRead)
  \/ \E t \in TaskIds : QueryFail(t)
  \/ \E t \in TaskIds : FanOut(t)
  \/ \E u \in Users, x \in Users : Fetch(u, x)

SpecRead == Init /\ [][NextRead]_vars

\* the row with the id of m after the step
RowAfter(m) == {n \in messages' : n.id = m.id}

\* C24: a row enters the messages table with isRead false; afterwards the
\* row changes in nothing but isRead, isRead never goes back to false, and it
\* becomes true only in a step in which the row's receiver fetches the
\* conversation with the row's sender: no fetch by another user, no fetch of
\* another conversation and no socket or send step changes it.
C24_ReadOnlyByReceiverFetch ==
  [][/\ \A n \in messages' :
          (\A m \in messages : m.id # n.id) => ~n.isRead
     /\ \A m \in messages :
          \A n \in RowAfter(m) :
             /\ n = [m EXCEPT !.isRead = n.isRead]
             /\ m.isRead => n.isRead
             /\ n.isRead # m.isRead =>
                   /\ Fetch(m.receiver, m.sender)
                   /\ \A u \in Users, x \in Users :
                         Fetch(u, x) => u = m.receiver /\ x = m.sender]_vars

\* C24 witness: user 2 just fetched its conversation with user 1: the
\* message user 1 sent to user 2 is read, the one user 1 sent to itself is
\* not.
C24_Witness ==
  /\ response.status = 200 /\ response.user = 2
  /\ \E m \in messages : m.sender = 1 /\ m.receiver = 2 /\ m.isRead
  /\ \E m \in messages : m.sender = 1 /\ m.receiver = 1 /\ ~m.isRead

(***************************************************************************)
(* Stalled sends: sockets 1 and 2 of users 1 and 2 join, type, send to     *)
(* each other with up to MaxInFlight handlers suspended at once, and       *)
(* disconnect, while any handler may stay at its INSERT for as long as it  *)
(* takes.                                                                  *)
(***************************************************************************)
StallConns == {1, 2}

NextStall ==
  \/ \E c \in StallConns : Connect(c, c)
  \/ \E c \in StallConns : ChatJoin(c, 3 - c)
  \/ \E c \in StallConns : TypingStart(c, 3 - c)
  \/ \E c \in StallConns : MessageSend(c, 3 - c, Text, Undefined)
  \/ \E t \in TaskIds : CountDone(t)
  \/ \E t \in TaskIds : InsertCommit(t, MaxMsgsSend)
  \/ \E t \in TaskIds : QueryFail(t)
  \/ \E t \in TaskIds : FanOut(t)
  \/ \E c \in StallConns : Disconnect(c)
  \/ \E p \in pendingStatus : ApplyStatus(p)

SpecStall == Init /\ [][NextStall]_vars

\* the socket send suspended as task t waits for its INSERT to return
Stalled(t) == tasks[t].kind = "socket" /\ tasks[t].pc = "insert"

\* C25: while a send waits for its INSERT, every other connected socket can
\* still join, relay typing, disconnect and (a handler slot being free)
\* start a send, and every other handler in flight can take its next step;
\* and no step of another handler or socket touches the waiting send.
C25_StalledSendBlocksNothing ==
  /\ [](\A t \in TaskIds :
          Stalled(t) =>
             /\ \A d \in StallConns \ {tasks[t].conn} :
                   sockets[d].state = "active" =>
                      /\ ENABLED ChatJoin(d, 3 - d)
                      /\ ENABLED TypingStart(d, 3 - d)
                      /\ ENABLED Disconnect(d)
                      /\ (\E s \in TaskIds : tasks[s].pc = "free") =>
                            ENABLED MessageSend(d, 3 - d, Text, Undefined)
             /\ \A t2 \in TaskIds \ {t} :
                   /\ tasks[t2].pc = "count" => ENABLED CountDone(t2)
                   /\ (tasks[t2].pc = "insert" /\ nextId <= MaxMsgsSend) =>
                         ENABLED InsertCommit(t2, MaxMsgsSend)
                   /\ tasks[t2].pc = "fanout" => ENABLED FanOut(t2))
  /\ [][\A t \in TaskIds :
          (Stalled(t) /\ tasks'[t] # tasks[t]) =>
             /\ tasks'[t].pc \in {"fanout", "free"}
             /\ \A t2 \in TaskIds \ {t} : tasks'[t2] = tasks[t2]
             /\ sockets' = sockets]_vars

\* C25 witness: the send of socket 1 still waits for its INSERT while a send
\* of socket 2 that was in flight next to it has been stored and was just
\* fanned out.
C25_Witness ==
  /\ tasks[1].conn = 1 /\ Stalled(1)
  /\ tasks[2].pc = "free"
  /\ emitted # <<>> /\ emitted[1] = Ev("message:sent", {2}, 1, "")
  /\ nextId = 2

\* the personal rooms socket c is in
PersonalRooms(c) == {r \in sockets[c].rooms : r.kind = "user"}

\* C26: a connected socket is in the personal room of its own user and in
\* no other personal room, from the step that connects it on and whatever
\* chat:join and chat:leave events it has sent; and no step of a connected
\* socket changes its personal rooms.
C26_OwnPersonalRoomOnly ==
  /\ [](\A c \in Conns :
          sockets[c].state = "active" =>
             PersonalRooms(c) = {UserRoom(sockets[c].userId)})
  /\ [][\A c \in Conns :
          (sockets[c].state = "active" /\ sockets'[c].state = "active") =>
             {r \in sockets'[c].rooms : r.kind = "user"} = PersonalRooms(c)]_vars

\* C26 witness: a connected socket has joined the chat with its own user id
\* and the chat with the other user, and is in its personal room.
C26_Witness ==
  \E c \in LiveConns :
     /\ ChatRoom(sockets[c].userId, sockets[c].userId) \in sockets[c].rooms
     /\ Cardinality(sockets[c].rooms) = 3
     /\ UserRoom(sockets[c].userId) \in sockets[c].rooms

(***************************************************************************)
(* Users 1 and 2 chat (join, typing, sends) while user 3 sends a chat:join *)
(* with a crafted userId.  The room a chat:join adds depends on the        *)
(* socket's user and the payload alone, so one crafted join is explored    *)
(* per behaviour, with every payload.                                      *)
(***************************************************************************)
IsoConns == {1, 2, 3}
PairConns == {1, 2}

NextIsolate ==
  \/ \E c \in IsoConns : Connect(c, c)
  \/ \E c \in PairConns : ChatJoin(c, 3 - c)
  \/ \E payload \in Payloads \cup {UndefinedId} :
        sockets[3].rooms \subseteq {UserRoom(3)} /\ ChatJoinRaw(3, payload)
  \/ \E c \in PairConns : TypingStart(c, 3 - c)
  \/ \E c \in PairConns : Idle /\ MessageSend(c, 3 - c, Text, Undefined)
  \/ \E t \in TaskIds : CountDone(t)
  \/ \E t \in TaskIds : InsertCommit(t, MaxMsgsSend)
  \/ \E t \in TaskIds : QueryFail(t)
  \/ \E t \in TaskIds : FanOut(t)

SpecIsolate == Init /\ [][NextIsolate]_vars

\* C27: a connected socket is never in the chat room of two users other than
\* its own, whatever userIds its chat:join events carried; and no
\* message:received or typing event of the chat between users 1 and 2 is
\* sent to the socket of user 3.
C27_ChatRoomsIsolated ==
  /\ \A c \in LiveConns, a \in Users, b \in Users :
        (a # b /\ sockets[c].userId \notin {a, b}) =>
           ChatRoom(a, b) \notin sockets[c].rooms
  /\ \A i \in 1..Len(emitted) :
        emitted[i].type \in {"message:received", "typing:start", "typing:stop"} =>
           3 \notin emitted[i].to

\* C27 witness: user 3's socket has joined the room its chat:join with the
\* userId "1-2" names, and an event of the chat between users 1 and 2 was
\* just sent to a socket of their room.
C27_Witness ==
  /\ sockets[3].state = "active"
  /\ [kind |-> "chat", id |-> <<1, Dash, 2, Dash, 3>>] \in sockets[3].rooms
  /\ \E i \in 1..Len(emitted) :
        /\ emitted[i].type \in {"message:received", "typing:start"}
        /\ emitted[i].to # {}
        /\ emitted[i].to \subseteq InRoom(ChatRoom(1, 2))

(***************************************************************************)
(* DELETE /messages/:messageId by users 1 and 2, one request at a time,    *)
(* on the messages user 1 has sent to user 2 over the REST route.          *)
(***************************************************************************)
DeleteUsers == {1, 2}

NextDelete ==
  \/ Idle /\ RestPost(1, 2, Text, Undefined)
  \/ \E t \in TaskIds : RecipientDone(t)
  \/ \E t \in TaskIds : CountDone(t)
  \/ \E t \in TaskIds : InsertCommit(t, MaxMsgsRead)
  \/ \E t \in TaskIds : QueryFail(t)
  \/ Idle /\ \E u \in DeleteUsers, id \in 0..nextId : Delete(u, id)
  \/ Tick

SpecDelete == Init /\ [][NextDelete]_vars

\* C28: a DELETE by user u for message id removes exactly the row of that
\* id when u is its sender; when the row has another sender the response is
\* 403, when no row has that id the response is 404, and in both cases the
\* messages table is unchanged.
C28_DeleteOnlyBySender ==
  [][deletes' # deletes =>
       \A u \in DeleteUsers, id \in 0..nextId :
          Delete(u, id) =>
             LET found == {m \in messages : m.id = id} IN
               /\ found = {} => (response'.status = 404 /\ messages' = messages)
               /\ (found # {} /\ \E m \in found : m.sender # u) =>
                     (response'.status = 403 /\ messages' = messages)
               /\ (found # {} /\ \A m \in found : m.sender = u) =>
                     messages' = messages \ found]_vars

====
